---- MODULE Spec2Model ----
(***************************************************************************)
(* Model of src/utilities/socket_data.py: the Socket polling client of the *)
(* MorgHTTPClient game-state service.  One action per method of Socket;    *)
(* the service's answers and the clock are the environment.                *)
(***************************************************************************)
EXTENDS Integers, Sequences, FiniteSets, TLC

\* ------------------------------------------------------------------ bounds
\* Largest number of stat records after the header in a stats table.
MaxStats == 2
\* Largest number of inventory slots in an inventory answer.
MaxSlots == 3
\* Largest number of polls one wait_til_gained_xp call is followed through.
MaxPolls == 3
\* Largest wait_time argument (seconds).
MaxWait == 2
\* The clock is followed up to one tick past the latest deadline.
MaxTime == MaxWait + 1

\* --------------------------------------------------------- Socket.__init__
base_endpoint == "http://localhost:8081/"
inv_endpoint == "inv"
stats_endpoint == "stats"
equip_endpoint == "equip"
events_endpoint == "events"
timeout == 1

\* list(self.__dict__.values()): the attributes in the order __init__ sets
\* them, each as the text an f-string makes of it.
DictValues ==
    << base_endpoint, inv_endpoint, stats_endpoint, equip_endpoint,
       events_endpoint, ToString(timeout) >>

\* ------------------------------------------------------------ Python text
\* A str is the sequence of its characters.
LowerChar(c) == CASE c = "A" -> "a" [] c = "B" -> "b" [] OTHER -> c
UpperChar(c) == CASE c = "a" -> "A" [] c = "b" -> "B" [] OTHER -> c

\* str.lower()
Lower(s) == [i \in 1..Len(s) |-> LowerChar(s[i])]

\* str.capitalize(): first character upper case, the rest lower case.
Capitalize(s) ==
    [i \in 1..Len(s) |-> IF i = 1 THEN UpperChar(s[i]) ELSE LowerChar(s[i])]

\* A normalisation that upper-cases the first letter and forgets to
\* lower-case the rest.
NormalizeMissingLower(s) ==
    [i \in 1..Len(s) |-> IF i = 1 THEN UpperChar(s[i]) ELSE s[i]]

\* stat_name.lower().capitalize()
Normalize(s) == Capitalize(Lower(s))

Digits == <<"0", "1", "2", "3", "4", "5", "6", "7", "8", "9">>
DigitVal(c) == (CHOOSE i \in 1..10 : Digits[i] = c) - 1

\* int(s) of a string of decimal digits.
RECURSIVE ParseInt(_)
ParseInt(s) ==
    IF Len(s) = 0 THEN 0
    ELSE 10 * ParseInt(SubSeq(s, 1, Len(s) - 1)) + DigitVal(s[Len(s)])

\* s.split("/"): the pieces of s between the separators.
RECURSIVE Split(_, _)
Split(s, sep) ==
    IF \A i \in 1..Len(s) : s[i] # sep THEN << s >>
    ELSE LET k == CHOOSE i \in 1..Len(s) :
                      s[i] = sep /\ \A j \in 1..(i - 1) : s[j] # sep
         IN  << SubSeq(s, 1, k - 1) >> \o Split(SubSeq(s, k + 1, Len(s)), sep)

\* ------------------------------------------------- the service's answers
\* Stat names the service uses, and the names callers pass.
Attack == <<"A", "b">>
Bow == <<"B">>
Overall == <<"O">>
StatNames == {Attack, Bow}
ArgNames ==
    { <<"a", "b">>, <<"A", "B">>, <<"A", "b">>, <<"a", "B">>,
      <<"b">>, <<"B">>, <<"b", "a">>, << >> }

StatRecord(n, l, x, g) ==
    ("stat" :> n) @@ ("level" :> l) @@ ("xp" :> x) @@ ("xp gained" :> g)

\* Level, total xp and xp gained of a stat: the service derives the level
\* from the xp, and no more xp is gained than there is.
StatValues == { <<1, 100, 0>>, <<1, 120, 20>>, <<2, 150, 50>> }

StatRecords ==
    { StatRecord(n, v[1], v[2], v[3]) : n \in StatNames, v \in StatValues }

\* The first entry of the stats answer: the overall record, or a record
\* that carries the name of a stat.
Headers == { StatRecord(Overall, 3, 250, 50), StatRecord(Attack, 3, 250, 25) }

SeqsUpTo(S, n) == UNION { [1..k -> S] : k \in 0..n }

StatsTables ==
    { << >> } \cup { << h >> \o t : h \in Headers, t \in SeqsUpTo(StatRecords, MaxStats) }

ItemIds == {995, 1511}
Quantities == {1, 28}
SlotRecords == { [id |-> i, quantity |-> q] : i \in ItemIds, q \in Quantities }
Inventories == SeqsUpTo(SlotRecords, MaxSlots)
ItemArgs == ItemIds \cup {4151}

\* [helmet, cape, neck, weapon, chest, shield, legs, gloves, boots, ring, arrow]
EquipSlots == 11
EquipList(ids) == [i \in 1..EquipSlots |-> [id |-> ids[i]]]
Equipments ==
    { EquipList(<<-1, -1, -1, -1, -1, -1, -1, -1, -1, -1, -1>>),
      EquipList(<<1163, -1, 1725, 4151, -1, 1201, 1079, -1, 4131, -1, 892>>),
      EquipList(<<1163, 1007, 1725, 4151, 1127, 1201, 1079, 1059, 4131, 2550, 892>>) }

Snapshot(health, pose, tick) ==
    ("health" :> health) @@ ("run energy" :> 100) @@ ("animation" :> -1)
    @@ ("animation pose" :> pose) @@ ("game tick" :> tick)
    @@ ("worldPoint" :> [x |-> 3222, y |-> 3218, plane |-> 0,
                         regionX |-> 30, regionY |-> 18, regionID |-> 12850])
    @@ ("camera" :> [yaw |-> 512, pitch |-> 128, x |-> 1, y |-> 2, z |-> 3,
                     x2 |-> 4, y2 |-> 5, z2 |-> 6])
    @@ ("mouse" :> [x |-> 400, y |-> 300])
    @@ ("interacting code" :> 7) @@ ("npc name" :> 3010) @@ ("npc health" :> 12)

Snapshots ==
    { Snapshot(<<"2", "1", "/", "2", "1">>, 808, 1),
      Snapshot(<<"0", "/", "9", "9">>, 813, 2),
      Snapshot(<<"7", "/", "1", "0">>, 819, 3) }

Bodies(endpoint) ==
    CASE endpoint = inv_endpoint -> Inventories
      [] endpoint = stats_endpoint -> StatsTables
      [] endpoint = equip_endpoint -> Equipments
      [] OTHER -> Snapshots

\* What requests.get can end in.  A refused connection raises
\* requests.exceptions.ConnectionError; a timeout while connecting raises
\* ConnectTimeout, a ConnectionError as well as a Timeout; a timeout while
\* waiting for the answer raises ReadTimeout, a Timeout only.
TransportExceptions == {"ConnectionError", "ConnectTimeout", "ReadTimeout"}
FaultStatuses == {204, 404, 500}

Failed(e) == [kind |-> "exc", exc |-> e]
Answer(code, b) == [kind |-> "response", status_code |-> code, body |-> b]
NoBody == << >>

Outcomes(endpoint) ==
    { Failed(e) : e \in TransportExceptions }
    \cup { Answer(c, NoBody) : c \in FaultStatuses }
    \cup { Answer(200, b) : b \in Bodies(endpoint) }

\* How a request ended, without the body of a status 200 answer.
Brief(out) ==
    IF out.kind = "response" /\ out.status_code = 200
    THEN Answer(200, NoBody)
    ELSE out

\* ------------------------------------------------------- results and log
Pending == [kind |-> "pending"]
None == [kind |-> "None"]
Value(v) == [kind |-> "value", val |-> v]
Raised(e) == [kind |-> "raise", exc |-> e]

\* SocketError(error_message, endpoint); the status code a message quotes
\* is kept beside its text.
NoCode == 0
SocketError(msg, code, endpoint) ==
    [kind |-> "SocketError", msg |-> msg, code |-> code, endpoint |-> endpoint]

MsgUnreachable == "Unable to reach socket"
MsgNotAvailable ==
    "Endpoint not available, make sure you are fully logged in, status code: "
MsgStatus == "Unable to reach socket, status code: "

\* except ConnectionError
IsConnectionError(e) == e \in {"ConnectionError", "ConnectTimeout"}

\* A __do_get without the branch for status 204.
DoGetNo204Branch(endpoint, out) ==
    IF out.kind = "exc"
    THEN IF IsConnectionError(out.exc)
         THEN SocketError(MsgUnreachable, NoCode, endpoint)
         ELSE Raised(out.exc)
    ELSE IF out.status_code # 200
         THEN SocketError(MsgStatus, out.status_code, endpoint)
         ELSE Value(out.body)

\* Socket.__do_get on endpoint, the request ending in out.
DoGet(endpoint, out) ==
    IF out.kind = "exc"
    THEN IF IsConnectionError(out.exc)
         THEN SocketError(MsgUnreachable, NoCode, endpoint)
         ELSE Raised(out.exc)
    ELSE IF out.status_code # 200
         THEN IF out.status_code = 204
              THEN SocketError(MsgNotAvailable, out.status_code, endpoint)
              ELSE SocketError(MsgStatus, out.status_code, endpoint)
         ELSE Value(out.body)

\* print(e)
PrintError(e) == [line |-> "SocketError", msg |-> e.msg, code |-> e.code,
                  endpoint |-> e.endpoint]

\* -------------------------------------------------------------- accessors
\* Each accessor, the request it issues ending in out: what it returns and
\* what it prints.
Ret(r, l) == [result |-> r, log |-> l]

\* What becomes of a __do_get that raised: except SocketError as e:
\* print(e); return None -- any other exception goes on to the caller.
Caught(r) ==
    IF r.kind = "SocketError" THEN Ret(None, << PrintError(r) >>) ELSE Ret(r, << >>)

\* cur_hp, max_hp = data['health'].split("/"); return int(cur_hp), int(max_hp)
get_hitpoints(out) ==
    LET r == DoGet(events_endpoint, out)
    IN  IF r.kind # "value" THEN Caught(r)
        ELSE LET parts == Split(r.val["health"], "/")
             IN  Ret(Value(<< ParseInt(parts[1]), ParseInt(parts[2]) >>), << >>)

\* return int(data['run energy'])
run_energy(out) ==
    LET r == DoGet(events_endpoint, out)
    IN  IF r.kind # "value" THEN Caught(r)
        ELSE Ret(Value(r.val["run energy"]), << >>)

\* return int(data['animation'])
get_animation(out) ==
    LET r == DoGet(events_endpoint, out)
    IN  IF r.kind # "value" THEN Caught(r)
        ELSE Ret(Value(r.val["animation"]), << >>)

\* return int(data['animation pose'])
get_animation_id(out) ==
    LET r == DoGet(events_endpoint, out)
    IN  IF r.kind # "value" THEN Caught(r)
        ELSE Ret(Value(r.val["animation pose"]), << >>)

\* return data['animation pose'] in [808, 813]
get_is_player_idle(out) ==
    LET r == DoGet(events_endpoint, out)
    IN  IF r.kind # "value" THEN Caught(r)
        ELSE Ret(Value(r.val["animation pose"] \in {808, 813}), << >>)

\* return int(data['game tick'])
get_game_tick(out) ==
    LET r == DoGet(events_endpoint, out)
    IN  IF r.kind # "value" THEN Caught(r)
        ELSE Ret(Value(r.val["game tick"]), << >>)

\* the world point (x, y, plane)
get_player_position(out) ==
    LET r == DoGet(events_endpoint, out)
    IN  IF r.kind # "value" THEN Caught(r)
        ELSE Ret(Value(<< r.val["worldPoint"].x, r.val["worldPoint"].y,
                          r.val["worldPoint"].plane >>), << >>)

\* the region data (regionX, regionY, regionID)
get_player_region_data(out) ==
    LET r == DoGet(events_endpoint, out)
    IN  IF r.kind # "value" THEN Caught(r)
        ELSE Ret(Value(<< r.val["worldPoint"].regionX, r.val["worldPoint"].regionY,
                          r.val["worldPoint"].regionID >>), << >>)

\* return data['camera']
get_camera_position(out) ==
    LET r == DoGet(events_endpoint, out)
    IN  IF r.kind # "value" THEN Caught(r)
        ELSE Ret(Value(r.val["camera"]), << >>)

\* return int(data['mouse']['x']), int(data['mouse']['y'])
get_mouse_position(out) ==
    LET r == DoGet(events_endpoint, out)
    IN  IF r.kind # "value" THEN Caught(r)
        ELSE Ret(Value(<< r.val["mouse"].x, r.val["mouse"].y >>), << >>)

\* return int(data['interacting code'])
get_interaction_code(out) ==
    LET r == DoGet(events_endpoint, out)
    IN  IF r.kind # "value" THEN Caught(r)
        ELSE Ret(Value(r.val["interacting code"]), << >>)

\* return int(data['npc name'])
get_npc_name(out) ==
    LET r == DoGet(events_endpoint, out)
    IN  IF r.kind # "value" THEN Caught(r)
        ELSE Ret(Value(r.val["npc name"]), << >>)

\* return int(data['npc health'])
get_npc_health(out) ==
    LET r == DoGet(events_endpoint, out)
    IN  IF r.kind # "value" THEN Caught(r)
        ELSE Ret(Value(r.val["npc health"]), << >>)

\* data[1:]
FromSecond(data) == IF Len(data) = 0 THEN << >> ELSE Tail(data)

StopIteration == Raised("StopIteration")

\* The places of rows whose record carries the name stat.
Hits(rows, stat) == { i \in 1..Len(rows) : rows[i]["stat"] = stat }

\* A scan that keeps the last matching record instead of the first.
NextMatchLast(rows, stat, field) ==
    IF Hits(rows, stat) = {} THEN StopIteration
    ELSE LET k == CHOOSE i \in Hits(rows, stat) : \A j \in Hits(rows, stat) : j <= i
         IN  Value(rows[k][field])

\* next(int(i[field]) for i in rows if i['stat'] == stat): the field of the
\* first record, in the order of rows, that carries the name; StopIteration
\* when the generator is exhausted.
NextMatch(rows, stat, field) ==
    IF Hits(rows, stat) = {} THEN StopIteration
    ELSE LET k == CHOOSE i \in Hits(rows, stat) : \A j \in Hits(rows, stat) : i <= j
         IN  Value(rows[k][field])

PrintInvalidStat(stat) == [line |-> "Invalid stat name: ", stat |-> stat]

\* The body shared by get_stat_level, get_stat_xp and get_stat_xp_gained.
StatLookup(stat_arg, out, field) ==
    LET name == Normalize(stat_arg)
        r == DoGet(stats_endpoint, out)
    IN  IF r.kind # "value" THEN Caught(r)
        ELSE LET found == NextMatch(FromSecond(r.val), name, field)
             IN  IF found.kind = "raise"
                 THEN Ret(None, << PrintInvalidStat(name) >>)
                 ELSE Ret(found, << >>)

get_stat_level(stat_arg, out) == StatLookup(stat_arg, out, "level")
get_stat_xp(stat_arg, out) == StatLookup(stat_arg, out, "xp")
get_stat_xp_gained(stat_arg, out) == StatLookup(stat_arg, out, "xp gained")

\* any(inventory_slot['id'] == item_id for inventory_slot in data)
get_if_item_in_inv(item, out) ==
    LET r == DoGet(inv_endpoint, out)
    IN  IF r.kind # "value" THEN Caught(r)
        ELSE Ret(Value(\E i \in 1..Len(r.val) : r.val[i].id = item), << >>)

\* [(index, slot['quantity']) for index, slot in enumerate(data) if ...],
\* index counted from 0.
RECURSIVE Matches(_, _, _)
Matches(data, item, index) ==
    IF Len(data) = 0 THEN << >>
    ELSE (IF Head(data).id = item THEN << << index, Head(data).quantity >> >>
          ELSE << >>)
         \o Matches(Tail(data), item, index + 1)

\* An enumeration that counts the slots from 1.
find_item_in_inv_from1(item, out) ==
    LET r == DoGet(inv_endpoint, out)
    IN  IF r.kind # "value" THEN Caught(r)
        ELSE Ret(Value(Matches(r.val, item, 1)), << >>)

find_item_in_inv(item, out) ==
    LET r == DoGet(inv_endpoint, out)
    IN  IF r.kind # "value" THEN Caught(r)
        ELSE Ret(Value(Matches(r.val, item, 0)), << >>)

\* [equipment_id['id'] for equipment_id in data]
get_player_equipment(out) ==
    LET r == DoGet(equip_endpoint, out)
    IN  IF r.kind # "value" THEN Caught(r)
        ELSE Ret(Value([i \in 1..Len(r.val) |-> r.val[i].id]), << >>)

\* ------------------------------------------------------------------ state
VARIABLES
    pc,           \* where the call in progress stands; how it ended
    op,           \* the method called
    endpoint_arg,     \* __do_get's argument, when __do_get itself is called
    stat_arg,     \* the stat_name argument as the caller gave it
    stat_name,    \* the local stat_name, after normalisation
    item_id,      \* the item_id argument
    wait_time,    \* the wait_time argument
    resp,         \* how the last request ended (wait_til_gained_xp, which
                  \* reads one number of each table, keeps no body)
    result,       \* what the call returned or raised
    log,          \* the lines the call printed
    reqs,         \* the endpoints the call requested, in order
    starting_xp,  \* wait_til_gained_xp's starting_xp
    stop_time,    \* wait_til_gained_xp's stop_time
    now,          \* time.time()
    polls         \* the polls of wait_til_gained_xp: when issued, what seen

vars ==
    << pc, op, endpoint_arg, stat_arg, stat_name, item_id, wait_time, resp,
       result, log, reqs, starting_xp, stop_time, now, polls >>

\* starting_xp and item_id before they are set.
NoXp == -1
NoItem == -1

Terminal == {"done", "SUCCESS", "TIMED_OUT", "FAILED", "RAISED"}

Init ==
    /\ pc = "idle"
    /\ op = "none"
    /\ endpoint_arg = ""
    /\ stat_arg = << >>
    /\ stat_name = << >>
    /\ item_id = NoItem
    /\ wait_time = 0
    /\ resp = Pending
    /\ result = Pending
    /\ log = << >>
    /\ reqs = << >>
    /\ starting_xp = NoXp
    /\ stop_time = 0
    /\ now = 0
    /\ polls = << >>

\* A method that issues one request and returns: from the call (Idle) to
\* the return.
Idle == pc = "idle"

Call(name, e, out, r) ==
    /\ pc' = "done"
    /\ op' = name
    /\ resp' = out
    /\ reqs' = << e >>
    /\ result' = r.result
    /\ log' = r.log

WaitVars == << wait_time, starting_xp, stop_time, now, polls >>

\* self.__do_get(endpoint): what it returns, or the exception it raises.
do_get ==
    /\ Idle
    /\ \E e \in {inv_endpoint, stats_endpoint, equip_endpoint, events_endpoint} :
         \E out \in Outcomes(e) :
           /\ Call("__do_get", e, out, Ret(DoGet(e, out), << >>))
           /\ endpoint_arg' = e
           /\ UNCHANGED << stat_arg, stat_name, item_id, WaitVars >>

\* What a call on the events or equipment endpoint leaves alone.
NoArgs == UNCHANGED << endpoint_arg, stat_arg, stat_name, item_id, WaitVars >>

GetHitpoints ==
    /\ Idle
    /\ \E out \in Outcomes(events_endpoint) :
         Call("get_hitpoints", events_endpoint, out, get_hitpoints(out))
    /\ NoArgs

RunEnergy ==
    /\ Idle
    /\ \E out \in Outcomes(events_endpoint) :
         Call("run_energy", events_endpoint, out, run_energy(out))
    /\ NoArgs

GetAnimation ==
    /\ Idle
    /\ \E out \in Outcomes(events_endpoint) :
         Call("get_animation", events_endpoint, out, get_animation(out))
    /\ NoArgs

GetAnimationId ==
    /\ Idle
    /\ \E out \in Outcomes(events_endpoint) :
         Call("get_animation_id", events_endpoint, out, get_animation_id(out))
    /\ NoArgs

GetIsPlayerIdle ==
    /\ Idle
    /\ \E out \in Outcomes(events_endpoint) :
         Call("get_is_player_idle", events_endpoint, out, get_is_player_idle(out))
    /\ NoArgs

GetGameTick ==
    /\ Idle
    /\ \E out \in Outcomes(events_endpoint) :
         Call("get_game_tick", events_endpoint, out, get_game_tick(out))
    /\ NoArgs

GetPlayerPosition ==
    /\ Idle
    /\ \E out \in Outcomes(events_endpoint) :
         Call("get_player_position", events_endpoint, out, get_player_position(out))
    /\ NoArgs

GetPlayerRegionData ==
    /\ Idle
    /\ \E out \in Outcomes(events_endpoint) :
         Call("get_player_region_data", events_endpoint, out, get_player_region_data(out))
    /\ NoArgs

GetCameraPosition ==
    /\ Idle
    /\ \E out \in Outcomes(events_endpoint) :
         Call("get_camera_position", events_endpoint, out, get_camera_position(out))
    /\ NoArgs

GetMousePosition ==
    /\ Idle
    /\ \E out \in Outcomes(events_endpoint) :
         Call("get_mouse_position", events_endpoint, out, get_mouse_position(out))
    /\ NoArgs

GetInteractionCode ==
    /\ Idle
    /\ \E out \in Outcomes(events_endpoint) :
         Call("get_interaction_code", events_endpoint, out, get_interaction_code(out))
    /\ NoArgs

GetNpcName ==
    /\ Idle
    /\ \E out \in Outcomes(events_endpoint) :
         Call("get_npc_name", events_endpoint, out, get_npc_name(out))
    /\ NoArgs

GetNpcHealth ==
    /\ Idle
    /\ \E out \in Outcomes(events_endpoint) :
         Call("get_npc_health", events_endpoint, out, get_npc_health(out))
    /\ NoArgs

GetStatLevel ==
    /\ Idle
    /\ \E n \in ArgNames, out \in Outcomes(stats_endpoint) :
         /\ Call("get_stat_level", stats_endpoint, out, get_stat_level(n, out))
         /\ stat_arg' = n
         /\ stat_name' = Normalize(n)
    /\ UNCHANGED << endpoint_arg, item_id, WaitVars >>

GetStatXp ==
    /\ Idle
    /\ \E n \in ArgNames, out \in Outcomes(stats_endpoint) :
         /\ Call("get_stat_xp", stats_endpoint, out, get_stat_xp(n, out))
         /\ stat_arg' = n
         /\ stat_name' = Normalize(n)
    /\ UNCHANGED << endpoint_arg, item_id, WaitVars >>

GetStatXpGained ==
    /\ Idle
    /\ \E n \in ArgNames, out \in Outcomes(stats_endpoint) :
         /\ Call("get_stat_xp_gained", stats_endpoint, out, get_stat_xp_gained(n, out))
         /\ stat_arg' = n
         /\ stat_name' = Normalize(n)
    /\ UNCHANGED << endpoint_arg, item_id, WaitVars >>

GetIfItemInInv ==
    /\ Idle
    /\ \E i \in ItemArgs, out \in Outcomes(inv_endpoint) :
         /\ Call("get_if_item_in_inv", inv_endpoint, out, get_if_item_in_inv(i, out))
         /\ item_id' = i
    /\ UNCHANGED << endpoint_arg, stat_arg, stat_name, WaitVars >>

FindItemInInv ==
    /\ Idle
    /\ \E i \in ItemArgs, out \in Outcomes(inv_endpoint) :
         /\ Call("find_item_in_inv", inv_endpoint, out, find_item_in_inv(i, out))
         /\ item_id' = i
    /\ UNCHANGED << endpoint_arg, stat_arg, stat_name, WaitVars >>

GetPlayerEquipment ==
    /\ Idle
    /\ \E out \in Outcomes(equip_endpoint) :
         Call("get_player_equipment", equip_endpoint, out, get_player_equipment(out))
    /\ NoArgs

\* A slice that keeps the first attribute: [0:-1].
EndpointsFromFirst == SubSeq(DictValues, 1, Len(DictValues) - 1)

\* list(self.__dict__.values())[1:-1]
EndpointsUnderTest == SubSeq(DictValues, 2, Len(DictValues) - 1)

PrintNotWorking(e) == [line |-> "Endpoint is not working.", endpoint |-> e]

\* Socket.__test_endpoints: one turn of its loop, the request ending in out.
TestEndpoints ==
    /\ pc \in {"idle", "test_loop"}
    /\ LET e == EndpointsUnderTest[Len(reqs) + 1]
       IN  \E out \in Outcomes(e) :
             LET r == DoGet(e, out)
             IN  /\ op' = "__test_endpoints"
                 /\ resp' = out
                 /\ reqs' = Append(reqs, e)
                 /\ CASE r.kind = "SocketError" ->
                           /\ log' = log \o << PrintError(r), PrintNotWorking(e) >>
                           /\ result' = Value(FALSE)
                           /\ pc' = "done"
                      [] r.kind = "raise" ->
                           /\ log' = log
                           /\ result' = r
                           /\ pc' = "done"
                      [] OTHER ->
                           /\ log' = log
                           /\ IF Len(reqs) + 1 = Len(EndpointsUnderTest)
                              THEN result' = Value(TRUE) /\ pc' = "done"
                              ELSE result' = result /\ pc' = "test_loop"
    /\ UNCHANGED << endpoint_arg, stat_arg, stat_name, item_id, WaitVars >>

PrintFailedStart == [line |-> "Failed to get starting xp."]

\* wait_til_gained_xp up to its loop: the name is normalised, the starting
\* xp is read with get_stat_xp (the request ending in out) and the
\* deadline is set.
WaitStart ==
    /\ Idle
    /\ \E n \in ArgNames, w \in (-1)..MaxWait, out \in Outcomes(stats_endpoint) :
      LET name == Normalize(n)
          r == get_stat_xp(name, out)
      IN  /\ op' = "wait_til_gained_xp"
          /\ stat_name' = name
          /\ wait_time' = w
          /\ resp' = Brief(out)
          /\ reqs' = << stats_endpoint >>
          /\ CASE r.result.kind = "raise" ->
                    /\ pc' = "RAISED"
                    /\ result' = r.result
                    /\ log' = r.log
                    /\ UNCHANGED << starting_xp, stop_time >>
               [] r.result.kind = "None" ->
                    /\ pc' = "FAILED"
                    /\ result' = None
                    /\ log' = r.log \o << PrintFailedStart >>
                    /\ UNCHANGED << starting_xp, stop_time >>
               [] OTHER ->
                    /\ pc' = "wait_loop"
                    /\ result' = result
                    /\ log' = r.log
                    /\ starting_xp' = r.result.val
                    /\ stop_time' = now + w
          /\ UNCHANGED << endpoint_arg, stat_arg, item_id, now, polls >>

\* What one poll ending in out shows wait_til_gained_xp of stat's xp:
\* __do_get's result (fetched) and, of a table,
\* next(int(i['xp']) for i in data[1:] if i['stat'] == stat_name).
PollView(stat, out) ==
    LET r == DoGet(stats_endpoint, out)
    IN  IF r.kind = "value"
        THEN [stat |-> stat, out |-> Brief(out), fetched |-> Value(NoBody),
              final_xp |-> NextMatch(FromSecond(r.val), stat, "xp")]
        ELSE [stat |-> stat, out |-> Brief(out), fetched |-> r,
              final_xp |-> Pending]

\* The views a poll can have, for each normalised name and each way a
\* request on the stats endpoint can end.
PollViews ==
    { PollView(stat, out) :
        stat \in {Normalize(n) : n \in ArgNames}, out \in Outcomes(stats_endpoint) }

\* A comparison that also takes an unchanged xp for a gain.
GainedOrEqual(final_xp, starting) == final_xp >= starting

\* if final_xp > starting_xp
Gained(final_xp, starting) == final_xp > starting

\* A loop condition that lets a poll start at the deadline itself.
LoopConditionAtDeadline == now <= stop_time

\* while time.time() < stop_time
LoopCondition == now < stop_time

\* The head of the loop: the clock is read; a poll is issued, or the loop
\* ends and the method returns None.
WaitLoop ==
    /\ pc = "wait_loop"
    /\ IF LoopCondition
       THEN /\ Len(polls) < MaxPolls
            /\ pc' = "wait_poll"
            /\ reqs' = Append(reqs, stats_endpoint)
            /\ polls' = Append(polls, [issued |-> now, obs |-> Pending])
            /\ UNCHANGED result
       ELSE /\ pc' = "TIMED_OUT"
            /\ result' = None
            /\ UNCHANGED << reqs, polls >>
    /\ UNCHANGED << op, endpoint_arg, stat_arg, stat_name, item_id, wait_time,
                    resp, log, starting_xp, stop_time, now >>

Seen(o) == [polls EXCEPT ![Len(polls)].obs = o]

\* The body of the loop, for each way the poll can end.
WaitPoll ==
    /\ pc = "wait_poll"
    /\ \E v \in PollViews :
         /\ v.stat = stat_name
         /\ resp' = v.out
         /\ CASE v.fetched.kind = "SocketError" ->
                   /\ log' = log \o << PrintError(v.fetched) >>
                   /\ result' = None
                   /\ pc' = "FAILED"
                   /\ polls' = Seen([kind |-> "fault"])
              [] v.fetched.kind = "raise" ->
                   /\ log' = log
                   /\ result' = v.fetched
                   /\ pc' = "RAISED"
                   /\ polls' = Seen([kind |-> "fault"])
              [] OTHER ->
                   /\ log' = log
                   /\ IF v.final_xp.kind = "raise"
                      THEN /\ result' = v.final_xp
                           /\ pc' = "RAISED"
                           /\ polls' = Seen([kind |-> "absent"])
                      ELSE /\ polls' = Seen([kind |-> "xp", xp |-> v.final_xp.val])
                           /\ IF Gained(v.final_xp.val, starting_xp)
                              THEN result' = v.final_xp /\ pc' = "SUCCESS"
                              ELSE result' = result /\ pc' = "wait_loop"
    /\ UNCHANGED << op, endpoint_arg, stat_arg, stat_name, item_id, wait_time,
                    reqs, starting_xp, stop_time, now >>

\* The clock moves on while wait_til_gained_xp runs.
Tick ==
    /\ pc \in {"wait_loop", "wait_poll"}
    /\ now < MaxTime
    /\ now' = now + 1
    /\ UNCHANGED << pc, op, endpoint_arg, stat_arg, stat_name, item_id, wait_time,
                    resp, result, log, reqs, starting_xp, stop_time, polls >>

\* The call is over; the client, which keeps nothing of it, is called again.
Return ==
    /\ pc \in Terminal
    /\ pc' = "idle"
    /\ op' = "none"
    /\ endpoint_arg' = ""
    /\ stat_arg' = << >>
    /\ stat_name' = << >>
    /\ item_id' = NoItem
    /\ wait_time' = 0
    /\ resp' = Pending
    /\ result' = Pending
    /\ log' = << >>
    /\ reqs' = << >>
    /\ starting_xp' = NoXp
    /\ stop_time' = 0
    /\ now' = 0
    /\ polls' = << >>

Next ==
    \/ do_get
    \/ TestEndpoints
    \/ GetHitpoints
    \/ RunEnergy
    \/ GetAnimation
    \/ GetAnimationId
    \/ GetIsPlayerIdle
    \/ GetStatLevel
    \/ GetStatXp
    \/ GetStatXpGained
    \/ WaitStart
    \/ WaitLoop
    \/ WaitPoll
    \/ Tick
    \/ GetGameTick
    \/ GetPlayerPosition
    \/ GetPlayerRegionData
    \/ GetCameraPosition
    \/ GetMousePosition
    \/ GetInteractionCode
    \/ GetNpcName
    \/ GetNpcHealth
    \/ GetIfItemInInv
    \/ FindItemInInv
    \/ GetPlayerEquipment
    \/ Return

Spec == Init /\ [][Next]_vars

\* ================================================================ claims
Ended == pc \in Terminal
Ok200(r) == r.kind = "response" /\ r.status_code = 200
IsFault(r) == r.kind = "exc" \/ (r.kind = "response" /\ r.status_code # 200)
WaitCall == op = "wait_til_gained_xp"
Started == starting_xp # NoXp
FourEndpoints == << inv_endpoint, stats_endpoint, equip_endpoint, events_endpoint >>
AccessorOps ==
    { "get_hitpoints", "run_energy", "get_animation", "get_animation_id",
      "get_is_player_idle", "get_stat_level", "get_stat_xp",
      "get_stat_xp_gained", "wait_til_gained_xp", "get_game_tick",
      "get_player_position", "get_player_region_data", "get_camera_position",
      "get_mouse_position", "get_interaction_code", "get_npc_name",
      "get_npc_health", "get_if_item_in_inv", "find_item_in_inv",
      "get_player_equipment" }
Min(S) == CHOOSE i \in S : \A j \in S : i <= j

\* C1: an accessor whose request ended in a fault (a transport failure,
\* status 204 or any other status that is not 200) has printed the fault and
\* returned None; it has not raised.
C1_AccessorsNeverRaise ==
    (Ended /\ op \in AccessorOps /\ IsFault(resp)) =>
        /\ result = None
        /\ \E i \in 1..Len(log) : log[i].line = "SocketError"

\* C2: __do_get on a completed exchange: status 200 returns the body as it
\* is; status 204 raises the 'endpoint not available' SocketError; any other
\* status N raises 'unable to reach socket, status code: N'; each SocketError
\* carries the endpoint requested.
C2_FetchMapsStatus ==
    (Ended /\ op = "__do_get" /\ resp.kind = "response") =>
        IF resp.status_code = 200
        THEN result.kind = "value" /\ result.val = resp.body
        ELSE /\ result.kind = "SocketError"
             /\ result.endpoint = endpoint_arg
             /\ result.code = resp.status_code
             /\ result.msg = (IF resp.status_code = 204 THEN MsgNotAvailable
                              ELSE MsgStatus)

\* C2, its case: each of the four endpoints answered 204 and __do_get raised
\* the SocketError for it (here: the equipment endpoint).
C2_Witness ==
    /\ Ended /\ op = "__do_get" /\ endpoint_arg = equip_endpoint
    /\ resp.kind = "response" /\ resp.status_code = 204
    /\ result.kind = "SocketError"

\* C3: every transport failure of __do_get's request, a refused connection
\* or a timeout, ends in the SocketError 'unable to reach socket' for the
\* endpoint requested; nothing else escapes.
C3_TransportFaultIsSocketError ==
    (Ended /\ op = "__do_get" /\ resp.kind = "exc") =>
        /\ result.kind = "SocketError"
        /\ result.msg = MsgUnreachable
        /\ result.endpoint = endpoint_arg

\* The polls that showed an xp above the starting xp, and the polls that
\* faulted (the request failed, or the stat was not in the table).
Exceeding ==
    { i \in 1..Len(polls) :
        polls[i].obs.kind = "xp" /\ polls[i].obs.xp > starting_xp }
Faulted == { i \in 1..Len(polls) : polls[i].obs.kind \in {"fault", "absent"} }

C5_WaitFailsFast ==
    (WaitCall /\ Ended) =>
        /\ ~Started =>
               /\ pc = "FAILED" /\ result = None
               /\ polls = << >> /\ reqs = << stats_endpoint >>
        /\ \A i \in 1..Len(polls) :
               polls[i].obs.kind = "fault" =>
                   /\ pc = "FAILED" /\ result = None
                   /\ i = Len(polls) /\ Len(reqs) = Len(polls) + 1

StatOps == {"get_stat_level", "get_stat_xp", "get_stat_xp_gained"}
FieldOf(o) ==
    CASE o = "get_stat_level" -> "level"
      [] o = "get_stat_xp" -> "xp"
      [] OTHER -> "xp gained"
SameButCase(a, b) ==
    Len(a) = Len(b) /\ \A i \in 1..Len(a) : LowerChar(a[i]) = LowerChar(b[i])
\* The records after the first that carry the name the caller asked for,
\* whatever the case of its letters: first letter upper case, rest lower.
Asked(table) ==
    { i \in 2..Len(table) :
        /\ Len(table[i]["stat"]) = Len(stat_arg)
        /\ \A k \in 1..Len(stat_arg) :
               table[i]["stat"][k] = (IF k = 1 THEN UpperChar(stat_arg[k])
                                      ELSE LowerChar(stat_arg[k])) }

\* C7: a stat lookup on a fetched table skips the first entry and returns
\* the field asked for of the first remaining record whose name is the
\* normalised name; with no such record it prints 'invalid stat name' and
\* returns None, raising nothing; names that differ only in the case of
\* their letters give the same result on the same table.
C7_StatLookup ==
    (Ended /\ op \in StatOps /\ Ok200(resp)) =>
        /\ IF Asked(resp.body) = {}
           THEN result = None /\ log = << PrintInvalidStat(stat_name) >>
           ELSE /\ result = Value(resp.body[Min(Asked(resp.body))][FieldOf(op)])
                /\ log = << >>
        /\ \A n \in ArgNames :
               SameButCase(n, stat_arg) =>
                   StatLookup(n, resp, FieldOf(op)).result = result

\* C7, its case: the level of "aB" is asked; the first entry carries the
\* name and is skipped, two records after it carry it with different
\* levels, and the level of the first of the two is returned.
C7_Witness ==
    /\ Ended /\ op = "get_stat_level" /\ Ok200(resp)
    /\ stat_arg = << "a", "B" >>
    /\ Len(resp.body) = 3
    /\ \A i \in 1..3 : resp.body[i]["stat"] = Attack
    /\ resp.body[2]["level"] # resp.body[3]["level"]
    /\ resp.body[1]["level"] # resp.body[2]["level"]
    /\ result = Value(resp.body[2]["level"])

InvOps == {"get_if_item_in_inv", "find_item_in_inv"}
Holding(data) == { i \in 1..Len(data) : data[i].id = item_id }

\* C8: on a fetched inventory, get_if_item_in_inv is true exactly when some
\* slot holds the item; find_item_in_inv returns the (slot index, quantity)
\* pairs of all the slots holding it, indices from 0 and ascending (empty
\* when none holds it); so the one is true exactly when the other is not
\* empty.
C8_Inventory ==
    (Ended /\ op \in InvOps /\ Ok200(resp)) =>
        /\ result.kind = "value"
        /\ op = "get_if_item_in_inv" =>
               /\ result.val = (Holding(resp.body) # {})
               /\ result.val = (find_item_in_inv(item_id, resp).result.val # << >>)
        /\ op = "find_item_in_inv" =>
               /\ Len(result.val) = Cardinality(Holding(resp.body))
               /\ \A k \in 1..Len(result.val) :
                      /\ (result.val[k][1] + 1) \in Holding(resp.body)
                      /\ result.val[k][2] = resp.body[result.val[k][1] + 1].quantity
                      /\ k < Len(result.val) => result.val[k][1] < result.val[k + 1][1]
               /\ (result.val # << >>) = get_if_item_in_inv(item_id, resp).result.val

\* C8, its case: three slots, the first without the item and the other two
\* holding it in different quantities; both are found, in slot order.
C8_Witness ==
    /\ Ended /\ op = "find_item_in_inv" /\ Ok200(resp)
    /\ Len(resp.body) = 3
    /\ Holding(resp.body) = {2, 3}
    /\ resp.body[2].quantity # resp.body[3].quantity
    /\ result = Value(<< <<1, resp.body[2].quantity>>, <<2, resp.body[3].quantity>> >>)

\* C9: every call of wait_til_gained_xp ends in SUCCESS with an xp, or in
\* TIMED_OUT or FAILED with None; it raises nothing, whatever the stats
\* endpoint answers to its requests (fault statuses, tables in which the
\* stat is present at the start and absent from a later poll).
C9_WaitNeverRaises ==
    (WaitCall /\ Ended /\ resp.kind = "response") =>
        /\ pc \in {"SUCCESS", "TIMED_OUT", "FAILED"}
        /\ result.kind \in {"value", "None"}
        /\ (pc = "SUCCESS") = (result.kind = "value")

\* C10: wait_til_gained_xp checks the deadline only after a poll: once the
\* starting xp is read, the call does not end without a poll, and TIMED_OUT
\* follows a poll whose xp did not exceed the starting xp.
C10_DeadlineCheckedAfterPoll ==
    (WaitCall /\ Ended /\ Started) =>
        /\ Len(polls) >= 1
        /\ pc = "TIMED_OUT" =>
               /\ polls[Len(polls)].obs.kind = "xp"
               /\ polls[Len(polls)].obs.xp <= starting_xp
               /\ now >= stop_time

\* C10 as amended: the deadline is checked before each poll, not after: a
\* poll is issued only at a moment before the deadline, and TIMED_OUT is
\* reached only at a check that finds now >= deadline, with no poll at all
\* when that is so at the first check (as for wait_time <= 0), and otherwise
\* after polls none of which showed an xp above the starting xp.
C10_DeadlineCheckedBeforePoll ==
    WaitCall =>
        /\ \A i \in 1..Len(polls) : polls[i].issued < stop_time
        /\ pc = "TIMED_OUT" =>
               /\ now >= stop_time
               /\ result = None
               /\ \A i \in 1..Len(polls) :
                      polls[i].obs.kind = "xp" /\ polls[i].obs.xp <= starting_xp
        /\ (Started /\ wait_time <= 0) => (polls = << >> /\ pc \in {"wait_loop", "TIMED_OUT"})

\* C10, its case: two polls were issued before the deadline, neither showed
\* a gain, and the check after them found the deadline passed.
C10_Witness ==
    /\ WaitCall /\ pc = "TIMED_OUT" /\ wait_time > 0
    /\ Len(polls) >= 2
    /\ polls[Len(polls)].issued < stop_time

====
